---- MODULE Spec2Model ----
(***************************************************************************)
(* Model of mlflow.database: create() (the deployment entry point), the    *)
(* managed session scope built by _get_managed_session_maker(), the table  *)
(* class factory make_deployed_model(), the pure flavor validator          *)
(* _validate_deployment_flavor() and the standalone writer insert_db().    *)
(*                                                                         *)
(* The SQL store and the SQLAlchemy session are modelled by what the code  *)
(* relies on: rows INSERTed by flush() live in the session's transaction   *)
(* and become readable by others only at commit(); rollback() and close()  *)
(* discard them; the identity counter of a table is consumed by every      *)
(* INSERT; declaring a second mapped class for a table name already in the *)
(* declarative Base's MetaData raises InvalidRequestError.                 *)
(***************************************************************************)
EXTENDS Integers, Sequences, FiniteSets, TLC

\* ---------------------------------------------------------------- bounds
MaxCalls == 2          \* calls made in one behaviour
MaxManifestLen == 3    \* flavors listed by a manifest

\* ------------------------------------------------------------ value sets
None == "None"
Procs == {"p1", "p2"}
SeqProcs == {"p1"}
TableNames == {"models", "prod_models"}
FlavorNames == {"onnx", "tensorflow", "python_function"}
RequestedFlavors == FlavorNames \cup {None}

\* src/mlflow/database/__init__.py:31  SUPPORTED_DEPLOYMENT_FLAVORS = [onnx.FLAVOR_NAME]
SUPPORTED_DEPLOYMENT_FLAVORS == <<"onnx">>

Range(s) == {s[i] : i \in DOMAIN s}
NoRepeat(s) == \A i, j \in DOMAIN s : i # j => s[i] # s[j]

\* model_config.flavors: an insertion-ordered dict, modelled by its key list
ManifestFlavors ==
    {s \in UNION {[1..n -> FlavorNames] : n \in 0..MaxManifestLen} : NoRepeat(s)}

\* contents of the flavor's data file (the onnx model), as bytes
Artifacts == {<<>>, <<79, 78>>}

\* what model_uri resolves to: a directory with or without an MLmodel
\* manifest, the flavors the manifest lists, and the data file
Models ==
    {[manifest_exists |-> TRUE, manifest |-> m, artifact |-> a] :
        m \in ManifestFlavors, a \in Artifacts}
    \cup {[manifest_exists |-> FALSE, manifest |-> <<>>, artifact |-> a] : a \in Artifacts}

\* ---------------------------------------------------------------- errors
\* An exception object: its class (MlflowException, another Exception, or a
\* BaseException outside Exception such as KeyboardInterrupt), the error code
\* an MlflowException carries, its message text, the flavor names the message
\* lists, and the exception it was built from (message=e), if any.
Err(cls, code, text, detail, wraps) ==
    [cls |-> cls, error_code |-> code, text |-> text, detail |-> detail, wraps |-> wraps]

MlflowException(text, code, detail) == Err("MlflowException", code, text, detail, <<>>)
RawError(text) == Err("Exception", None, text, <<>>, <<>>)

\* ------------------------------------------------- _validate_deployment_flavor
\* the validator without its elif branch (lines 152-158)
Validate_NoPresenceCheck(model_config_flavors, flavor) ==
    IF flavor \notin Range(SUPPORTED_DEPLOYMENT_FLAVORS)
    THEN <<MlflowException("flavor is not supported for deployment",
                           "INVALID_PARAMETER_VALUE", SUPPORTED_DEPLOYMENT_FLAVORS)>>
    ELSE <<>>

\* a validator that, given no flavor, accepts a manifest listing a supported one
Validate_AutoDetect(model_config_flavors, flavor) ==
    IF flavor = None /\ Range(model_config_flavors) \cap Range(SUPPORTED_DEPLOYMENT_FLAVORS) # {}
    THEN <<>>
    ELSE IF flavor \notin Range(SUPPORTED_DEPLOYMENT_FLAVORS)
    THEN <<MlflowException("flavor is not supported for deployment",
                           "INVALID_PARAMETER_VALUE", SUPPORTED_DEPLOYMENT_FLAVORS)>>
    ELSE IF flavor \notin Range(model_config_flavors)
    THEN <<MlflowException("model does not contain the deployment flavor",
                           "RESOURCE_DOES_NOT_EXIST", model_config_flavors)>>
    ELSE <<>>

\* <<>> when validation returns, <<e>> when it raises e.
_validate_deployment_flavor(model_config_flavors, flavor) ==
    IF flavor \notin Range(SUPPORTED_DEPLOYMENT_FLAVORS)
    THEN <<MlflowException("flavor is not supported for deployment",
                           "INVALID_PARAMETER_VALUE", SUPPORTED_DEPLOYMENT_FLAVORS)>>
    ELSE IF flavor \notin Range(model_config_flavors)
    THEN <<MlflowException("model does not contain the deployment flavor",
                           "RESOURCE_DOES_NOT_EXIST", model_config_flavors)>>
    ELSE <<>>

\* ------------------------------------------------------------------ rows
\* The row create() builds at lines 86-96 (placeholder values), with the
\* identity value the store assigns on INSERT (0: not assigned yet) and the
\* number of the call whose transaction owns it.
DeployedModel(model_id, owner) ==
    [model_id |-> model_id, model_name |-> "name", model_version |-> "1.0",
     model_framework |-> "t", model_framework_version |-> "t", model |-> None,
     model_creation_time |-> None, model_deployment_time |-> None,
     deployed_by |-> None, model_description |-> None, experiment_name |-> None,
     tx |-> owner]

\* ---------------------------------------------- make_managed_session control
\* What session.commit() (line 123) can raise, one exception of each class
\* the try statement tells apart: an MlflowException (raised by a hook of the
\* session), any other Exception (the store rejects the commit), and a
\* BaseException outside Exception (an interrupt during the commit's I/O).
CommitErrors ==
    { MlflowException("commit hook failed", "RESOURCE_DOES_NOT_EXIST", <<>>),
      RawError("commit failed"),
      Err("BaseException", None, "KeyboardInterrupt in commit", <<>>, <<>>) }

\* the scope committing when the unit of work raised
ExceptClause_CommitsOnError(e) ==
    IF e \in CommitErrors
    THEN IF e.cls = "MlflowException" THEN "except_mlflow"
         ELSE IF e.cls = "Exception" THEN "except_exception"
         ELSE "finally"
    ELSE "commit"

\* Which except clause of make_managed_session receives e (lines 124, 127);
\* a BaseException outside Exception reaches neither and goes to finally.
ExceptClause(e) ==
    IF e.cls = "MlflowException" THEN "except_mlflow"
    ELSE IF e.cls = "Exception" THEN "except_exception"
    ELSE "finally"

\* line 126 written like line 129
Reraise_Wraps(e) == Err("MlflowException", "INTERNAL_ERROR", e.text, <<>>, <<e>>)

\* line 126: bare raise, the exception being handled
Reraise(e) == e

\* line 129 written like line 126
WrapInternal_Reraises(e) == e

\* line 129: raise MlflowException(message=e, error_code=INTERNAL_ERROR)
WrapInternal(e) == Err("MlflowException", "INTERNAL_ERROR", e.text, <<>>, <<e>>)

\* line 123: the statement after the yield returns
AfterYield == "commit"

\* line 123 returned: no except clause runs, the finally clause does
AfterCommit == "finally"

\* the close at the end of the try block instead of in a finally clause
AfterExcept_NoFinally == "done"

\* lines 126, 129: leaving an except clause runs the finally clause (line 130)
AfterExcept == "finally"

\* line 131 done: the generator ends, the with statement is left
AfterClose == "done"

\* line 66: declaring a class for a table name the Base's MetaData already
\* holds raises InvalidRequestError
TableAlreadyDefined(md, name) == name \in md

\* line 67 with checkfirst=False
CheckFirst_Never(tables, name) == FALSE

\* line 67: checkfirst=True issues CREATE TABLE only when the table is absent
CheckFirst(tables, name) == name \in tables

\* errors the unit of work of a caller of make_managed_session may raise
UowErrors ==
    { MlflowException("bad parameter", "INVALID_PARAMETER_VALUE", <<>>),
      MlflowException("inner failure", "INTERNAL_ERROR", <<>>),
      RawError("unit of work failed"),
      Err("BaseException", None, "KeyboardInterrupt", <<>>, <<>>) }

VARIABLES
    metadata,   \* [Procs -> SUBSET TableNames]: tables of InitialBase.metadata
    dbTables,   \* names of the physical tables of the store
    dbRows,     \* [TableNames -> set of rows]: committed rows, what a reader sees
    dbNextId,   \* [TableNames -> Nat]: identity counter of model_id
    pc,         \* [Procs -> position in create() / make_managed_session()]
    call,       \* [Procs -> the arguments of the current call]
    sess,       \* [Procs -> the session of the current call]
    exc,        \* [Procs -> <<>> or <<e>>]: exception in flight / propagated
    conn,       \* [Procs -> BOOLEAN]: a store connection was requested by the call
    ncalls,     \* calls started so far
    createdBy,  \* [TableNames -> number of the call that created the table, or 0]
    vmanifest, vflavor, vresult,  \* a run of _validate_deployment_flavor
    ins         \* a run of insert_db: its position, arguments, locals and connection

vars == <<metadata, dbTables, dbRows, dbNextId, pc, call, sess, exc, conn, ncalls, createdBy,
          vmanifest, vflavor, vresult, ins>>
dvars == <<metadata, dbTables, dbRows, dbNextId, pc, call, sess, exc, conn, ncalls, createdBy>>
vvars == <<vmanifest, vflavor, vresult, ins>>

NoCall == [caller |-> "none", id |-> 0, table_name |-> None, flavor |-> None,
           manifest_exists |-> FALSE, manifest |-> <<>>, artifact |-> <<>>]
\* log: the methods called on the session, in order; thrown: the exception
\* raised inside the try block (by the unit of work or by commit), if any
NoSession == [opened |-> FALSE, closed |-> FALSE, log |-> <<>>, new |-> {}, flushed |-> {},
              thrown |-> <<>>]

DeployIdle ==
    /\ metadata = [p \in Procs |-> {}]
    /\ dbRows = [t \in TableNames |-> {}]
    /\ dbNextId = [t \in TableNames |-> 1]
    /\ pc = [p \in Procs |-> "idle"]
    /\ call = [p \in Procs |-> NoCall]
    /\ sess = [p \in Procs |-> NoSession]
    /\ exc = [p \in Procs |-> <<>>]
    /\ conn = [p \in Procs |-> FALSE]
    /\ ncalls = 0
    /\ createdBy = [t \in TableNames |-> 0]

\* conn: "none" before engine.connect(), then "open", "closed" after conn.close();
\* reflected: the keys of meta.tables
NoInsert == [pc |-> "idle", id |-> 0, table_name |-> None, column_name |-> None,
             file_exists |-> FALSE, file_bytes |-> <<>>, artifact_content |-> <<>>,
             reflected |-> {}, conn |-> "none", exc |-> <<>>]

ValidateIdle ==
    /\ vmanifest = <<>>
    /\ vflavor = None
    /\ vresult = [ran |-> FALSE, raised |-> <<>>, returned |-> None]
    /\ ins = NoInsert

Init ==
    /\ DeployIdle
    /\ dbTables \in SUBSET TableNames
    /\ ValidateIdle

Log(p, op) == [sess EXCEPT ![p].log = Append(@, op)]

\* create(model_uri, db_uri, flavor, table_name), line 58: the engine is lazy,
\* no connection is made yet. model_uri is given by the manifest it resolves to.
create_call(p, tables, flavors, models) ==
    /\ pc[p] \in {"idle", "done"}
    /\ ncalls < MaxCalls
    /\ \E t \in tables, f \in flavors, m \in models :
          call' = [call EXCEPT ![p] =
                 [caller |-> "create", id |-> ncalls + 1, table_name |-> t, flavor |-> f,
                  manifest_exists |-> m.manifest_exists, manifest |-> m.manifest,
                  artifact |-> m.artifact]]
    /\ ncalls' = ncalls + 1
    /\ pc' = [pc EXCEPT ![p] = "make_model"]
    /\ sess' = [sess EXCEPT ![p] = NoSession]
    /\ exc' = [exc EXCEPT ![p] = <<>>]
    /\ conn' = [conn EXCEPT ![p] = FALSE]
    /\ UNCHANGED <<metadata, dbTables, dbRows, dbNextId, createdBy, vvars>>

create(p) == create_call(p, TableNames, RequestedFlavors, Models)

\* line 66: table = make_deployed_model(table_name)
make_deployed_model(p) ==
    /\ pc[p] = "make_model"
    /\ IF TableAlreadyDefined(metadata[p], call[p].table_name)
       THEN /\ exc' = [exc EXCEPT ![p] = <<RawError("InvalidRequestError: table already defined")>>]
            /\ pc' = [pc EXCEPT ![p] = "done"]
            /\ UNCHANGED metadata
       ELSE /\ metadata' = [metadata EXCEPT ![p] = @ \cup {call[p].table_name}]
            /\ pc' = [pc EXCEPT ![p] = "create_table_check"]
            /\ UNCHANGED exc
    /\ UNCHANGED <<dbTables, dbRows, dbNextId, call, sess, conn, ncalls, createdBy, vvars>>

\* line 67: table.__table__.create(bind=engine, checkfirst=True), the check
table_create_checkfirst(p) ==
    /\ pc[p] = "create_table_check"
    /\ conn' = [conn EXCEPT ![p] = TRUE]
    /\ pc' = [pc EXCEPT ![p] =
          IF CheckFirst(dbTables, call[p].table_name) THEN "open" ELSE "create_table"]
    /\ UNCHANGED <<metadata, dbTables, dbRows, dbNextId, call, sess, exc, ncalls, createdBy, vvars>>

\* line 67: the CREATE TABLE statement; the store may reject it, and it
\* rejects it when the table exists by now
table_create(p) ==
    /\ pc[p] = "create_table"
    /\ \E accepted \in BOOLEAN :
          IF accepted /\ call[p].table_name \notin dbTables
          THEN /\ dbTables' = dbTables \cup {call[p].table_name}
               /\ createdBy' = [createdBy EXCEPT ![call[p].table_name] = call[p].id]
               /\ pc' = [pc EXCEPT ![p] = "open"]
               /\ UNCHANGED exc
          ELSE /\ exc' = [exc EXCEPT ![p] =
                      IF call[p].table_name \in dbTables
                      THEN <<RawError("CREATE TABLE failed: table already exists")>>
                      ELSE <<RawError("CREATE TABLE failed")>>]
               /\ pc' = [pc EXCEPT ![p] = "done"]
               /\ UNCHANGED <<dbTables, createdBy>>
    /\ UNCHANGED <<metadata, dbRows, dbNextId, call, sess, conn, ncalls, vvars>>

\* a caller of _get_managed_session_maker(SessionMaker)() other than create(),
\* with a unit of work of its own on an existing mapped table
managed_session_call(p) ==
    /\ pc[p] \in {"idle", "done"}
    /\ ncalls < MaxCalls
    /\ \E t \in TableNames :
          call' = [call EXCEPT ![p] =
                 [caller |-> "with", id |-> ncalls + 1, table_name |-> t, flavor |-> None,
                  manifest_exists |-> FALSE, manifest |-> <<>>, artifact |-> <<>>]]
    /\ ncalls' = ncalls + 1
    /\ pc' = [pc EXCEPT ![p] = "open"]
    /\ sess' = [sess EXCEPT ![p] = NoSession]
    /\ exc' = [exc EXCEPT ![p] = <<>>]
    /\ conn' = [conn EXCEPT ![p] = FALSE]
    /\ UNCHANGED <<metadata, dbTables, dbRows, dbNextId, createdBy, vvars>>

\* lines 85, 120-122: session = SessionMaker(); yield session
make_managed_session(p) ==
    /\ pc[p] = "open"
    /\ sess' = [sess EXCEPT ![p] = [NoSession EXCEPT !.opened = TRUE]]
    /\ pc' = [pc EXCEPT ![p] = "uow_add"]
    /\ UNCHANGED <<metadata, dbTables, dbRows, dbNextId, call, exc, conn, ncalls, createdBy, vvars>>

\* lines 86-97: deployed_model = table(...); session.add(deployed_model)
session_add(p) ==
    /\ pc[p] = "uow_add"
    /\ sess' = [sess EXCEPT ![p].new = {DeployedModel(0, call[p].id)},
                            ![p].log = Append(@, "add")]
    /\ pc' = [pc EXCEPT ![p] = "uow_flush"]
    /\ UNCHANGED <<metadata, dbTables, dbRows, dbNextId, call, exc, conn, ncalls, createdBy, vvars>>

\* line 98: session.flush(): INSERT inside the session's transaction. The
\* store assigns model_id; the INSERT fails when the table is missing or the
\* store rejects it.
session_flush(p) ==
    /\ pc[p] = "uow_flush"
    /\ conn' = [conn EXCEPT ![p] = TRUE]
    /\ \E accepted \in BOOLEAN :
          LET t == call[p].table_name IN
          IF accepted /\ t \in dbTables
          THEN /\ sess' = [sess EXCEPT ![p].new = {}, ![p].log = Append(@, "flush"),
                                       ![p].flushed = {DeployedModel(dbNextId[t], call[p].id)}]
               /\ dbNextId' = [dbNextId EXCEPT ![t] = @ + 1]
               /\ pc' = [pc EXCEPT ![p] = "uow_end"]
               /\ UNCHANGED exc
          ELSE /\ sess' = [sess EXCEPT ![p].log = Append(@, "flush failed"),
                                       ![p].thrown = <<RawError("INSERT failed")>>]
               /\ exc' = [exc EXCEPT ![p] = <<RawError("INSERT failed")>>]
               /\ pc' = [pc EXCEPT ![p] = ExceptClause(RawError("INSERT failed"))]
               /\ UNCHANGED dbNextId
    /\ UNCHANGED <<metadata, dbTables, dbRows, call, ncalls, createdBy, vvars>>

\* the unit of work of another caller raises e, before or after its add or flush
uow_raise(p) ==
    /\ pc[p] \in {"uow_add", "uow_flush", "uow_end"}
    /\ call[p].caller = "with"
    /\ \E e \in UowErrors :
          /\ exc' = [exc EXCEPT ![p] = <<e>>]
          /\ sess' = [sess EXCEPT ![p].thrown = <<e>>]
          /\ pc' = [pc EXCEPT ![p] = ExceptClause(e)]
    /\ UNCHANGED <<metadata, dbTables, dbRows, dbNextId, call, conn, ncalls, createdBy, vvars>>

\* the with body ends (after line 98): control returns into the generator
uow_return(p) ==
    /\ pc[p] = "uow_end"
    /\ pc' = [pc EXCEPT ![p] = AfterYield]
    /\ UNCHANGED <<metadata, dbTables, dbRows, dbNextId, call, sess, exc, conn, ncalls, createdBy, vvars>>

\* line 123: session.commit(), inside the try: a commit that raises leaves the
\* rows unpublished, and its exception is dispatched by class like one of the
\* unit of work (lines 124, 127, or neither clause)
session_commit(p) ==
    /\ pc[p] = "commit"
    /\ \/ /\ dbRows' = [dbRows EXCEPT ![call[p].table_name] = @ \cup sess[p].flushed]
          /\ sess' = [sess EXCEPT ![p].log = Append(@, "commit"), ![p].flushed = {}]
          /\ pc' = [pc EXCEPT ![p] = AfterCommit]
          /\ UNCHANGED exc
       \/ \E e \in CommitErrors :
             /\ sess' = [sess EXCEPT ![p].log = Append(@, "commit failed"),
                                     ![p].thrown = <<e>>]
             /\ exc' = [exc EXCEPT ![p] = <<e>>]
             /\ pc' = [pc EXCEPT ![p] = ExceptClause(e)]
             /\ UNCHANGED dbRows
    /\ UNCHANGED <<metadata, dbTables, dbNextId, call, conn, ncalls, createdBy, vvars>>

\* variant: a rollback that raises is swallowed and `raised` still propagates
Rollback_SwallowsFailure(p, raised) ==
    \E ok \in BOOLEAN :
        IF ok
        THEN /\ sess' = [sess EXCEPT ![p].log = Append(@, "rollback"),
                                     ![p].new = {}, ![p].flushed = {}]
             /\ exc' = [exc EXCEPT ![p] = <<raised>>]
        ELSE /\ sess' = Log(p, "rollback failed")
             /\ exc' = [exc EXCEPT ![p] = <<raised>>]

\* session.rollback() of lines 125 and 128, then `raised`; a rollback that
\* raises replaces the exception being handled
Rollback(p, raised) ==
    \E ok \in BOOLEAN :
        IF ok
        THEN /\ sess' = [sess EXCEPT ![p].log = Append(@, "rollback"),
                                     ![p].new = {}, ![p].flushed = {}]
             /\ exc' = [exc EXCEPT ![p] = <<raised>>]
        ELSE /\ sess' = Log(p, "rollback failed")
             /\ exc' = [exc EXCEPT ![p] = <<RawError("rollback failed")>>]

\* lines 124-126: except MlflowException: session.rollback(); raise
except_MlflowException(p) ==
    /\ pc[p] = "except_mlflow"
    /\ Rollback(p, Reraise(exc[p][1]))
    /\ pc' = [pc EXCEPT ![p] = AfterExcept]
    /\ UNCHANGED <<metadata, dbTables, dbRows, dbNextId, call, conn, ncalls, createdBy, vvars>>

\* lines 127-129: except Exception as e: session.rollback(); raise MlflowException(...)
except_Exception(p) ==
    /\ pc[p] = "except_exception"
    /\ Rollback(p, WrapInternal(exc[p][1]))
    /\ pc' = [pc EXCEPT ![p] = AfterExcept]
    /\ UNCHANGED <<metadata, dbTables, dbRows, dbNextId, call, conn, ncalls, createdBy, vvars>>

\* lines 130-131: finally: session.close(); what the transaction still holds
\* is discarded, and the exception in flight, if any, reaches the caller
session_close(p) ==
    /\ pc[p] = "finally"
    /\ sess' = [sess EXCEPT ![p].log = Append(@, "close"), ![p].closed = TRUE,
                            ![p].new = {}, ![p].flushed = {}]
    /\ pc' = [pc EXCEPT ![p] = AfterClose]
    /\ UNCHANGED <<metadata, dbTables, dbRows, dbNextId, call, exc, conn, ncalls, createdBy, vvars>>

Step(p) ==
    \/ create(p)
    \/ make_deployed_model(p)
    \/ table_create_checkfirst(p)
    \/ table_create(p)
    \/ managed_session_call(p)
    \/ make_managed_session(p)
    \/ session_add(p)
    \/ session_flush(p)
    \/ uow_raise(p)
    \/ uow_return(p)
    \/ session_commit(p)
    \/ except_MlflowException(p)
    \/ except_Exception(p)
    \/ session_close(p)

\* calls made one after another in one process
Next == \E p \in SeqProcs : Step(p)

Spec == Init /\ [][Next]_vars

\* ------------------------------------------------ concurrent deployments
\* create() running in two processes against one store, each process with
\* its own declarative Base; their steps interleave at the store's statements
ConcurrentStep(p) ==
    \/ create_call(p, TableNames, {"onnx"},
                   {[manifest_exists |-> TRUE, manifest |-> <<"onnx">>, artifact |-> <<79, 78>>]})
    \/ make_deployed_model(p)
    \/ table_create_checkfirst(p)
    \/ table_create(p)
    \/ make_managed_session(p)
    \/ session_add(p)
    \/ session_flush(p)
    \/ uow_return(p)
    \/ session_commit(p)
    \/ except_MlflowException(p)
    \/ except_Exception(p)
    \/ session_close(p)

ConcurrentNext == \E p \in Procs : ConcurrentStep(p)

SpecConcurrent == Init /\ [][ConcurrentNext]_vars

\* ------------------------------------------- runs of the flavor validator
\* lines 136-158: the function has no return statement, a call that does not
\* raise evaluates to None
ValidateReturnValue == None

ValidateInit ==
    /\ DeployIdle
    /\ dbTables = {}
    /\ vmanifest \in ManifestFlavors
    /\ vflavor \in RequestedFlavors
    /\ vresult = [ran |-> FALSE, raised |-> <<>>, returned |-> None]
    /\ ins = NoInsert

Validate ==
    /\ ~vresult.ran
    /\ vresult' = [ran |-> TRUE, raised |-> _validate_deployment_flavor(vmanifest, vflavor),
                   returned |-> ValidateReturnValue]
    /\ UNCHANGED <<vmanifest, vflavor, ins, dvars>>

SpecValidate == ValidateInit /\ [][Validate]_vars

\* ------------------------------------------------------ runs of insert_db
ColumnNames == {"model", "model_description"}
\* the file at path onnx_model: absent, or present with its bytes
ArtifactFiles ==
    {[file_exists |-> FALSE, file_bytes |-> <<>>]}
        \cup {[file_exists |-> TRUE, file_bytes |-> b] : b \in Artifacts}

\* the row written by table.insert().values(model=artifact_content): only the
\* model column is given, model_id is drawn from the identity counter
InsertedRow(model_id, artifact_content, owner) ==
    [model_id |-> model_id, model_name |-> None, model_version |-> None,
     model_framework |-> None, model_framework_version |-> None,
     model |-> artifact_content,
     model_creation_time |-> None, model_deployment_time |-> None,
     deployed_by |-> None, model_description |-> None, experiment_name |-> None,
     tx |-> owner]

InsertRaise(cls, text) ==
    ins' = [ins EXCEPT !.exc = <<Err(cls, None, text, <<>>, <<>>)>>, !.pc = "done"]

\* insert_db(db_uri, table_name, column_name, onnx_model), lines 161-162: the
\* engine is lazy, no connection is made yet
insert_db ==
    /\ ins.pc \in {"idle", "done"}
    /\ ncalls < MaxCalls
    /\ \E t \in TableNames, c \in ColumnNames, f \in ArtifactFiles :
          ins' = [NoInsert EXCEPT !.pc = "read_file", !.id = ncalls + 1,
                                  !.table_name = t, !.column_name = c,
                                  !.file_exists = f.file_exists,
                                  !.file_bytes = f.file_bytes]
    /\ ncalls' = ncalls + 1
    /\ UNCHANGED <<vmanifest, vflavor, vresult, metadata, dbTables, dbRows, dbNextId, pc,
                   call, sess, exc, conn, createdBy>>

\* line 163: artifact_content = open(onnx_model, "rb").read()
insert_read_file ==
    /\ ins.pc = "read_file"
    /\ IF ins.file_exists
       THEN ins' = [ins EXCEPT !.artifact_content = ins.file_bytes, !.pc = "connect"]
       ELSE InsertRaise("FileNotFoundError", "No such file or directory")
    /\ UNCHANGED <<vmanifest, vflavor, vresult, dvars>>

\* line 165: conn = engine.connect()
insert_connect ==
    /\ ins.pc = "connect"
    /\ \E ok \in BOOLEAN :
          IF ok
          THEN ins' = [ins EXCEPT !.conn = "open", !.pc = "reflect"]
          ELSE InsertRaise("OperationalError", "connect failed")
    /\ UNCHANGED <<vmanifest, vflavor, vresult, dvars>>

\* line 166: meta = MetaData(engine, reflect=True)
insert_reflect ==
    /\ ins.pc = "reflect"
    /\ \E ok \in BOOLEAN :
          IF ok
          THEN ins' = [ins EXCEPT !.reflected = dbTables, !.pc = "lookup"]
          ELSE InsertRaise("OperationalError", "reflection failed")
    /\ UNCHANGED <<vmanifest, vflavor, vresult, dvars>>

\* line 167: table = meta.tables[table_name]
insert_lookup ==
    /\ ins.pc = "lookup"
    /\ IF ins.table_name \in ins.reflected
       THEN ins' = [ins EXCEPT !.pc = "execute"]
       ELSE InsertRaise("KeyError", ins.table_name)
    /\ UNCHANGED <<vmanifest, vflavor, vresult, dvars>>

\* lines 169-171: conn.execute(table.insert().values(model=artifact_content));
\* the statement commits on its own. A table made by create() has NOT NULL
\* columns without defaults (schema/model_table.py lines 22-34) and rejects
\* the statement; a table of another origin accepts or rejects it
insert_execute ==
    /\ ins.pc = "execute"
    /\ \E accepted \in BOOLEAN :
          IF accepted /\ createdBy[ins.table_name] = 0
          THEN /\ dbRows' = [dbRows EXCEPT ![ins.table_name] =
                      @ \cup {InsertedRow(dbNextId[ins.table_name], ins.artifact_content,
                                          ins.id)}]
               /\ dbNextId' = [dbNextId EXCEPT ![ins.table_name] = @ + 1]
               /\ ins' = [ins EXCEPT !.pc = "close"]
          ELSE /\ InsertRaise("DBAPIError", "insert failed")
               /\ UNCHANGED <<dbRows, dbNextId>>
    /\ UNCHANGED <<vmanifest, vflavor, vresult, metadata, dbTables, pc, call, sess, exc, conn,
                   ncalls, createdBy>>

\* line 173: conn.close()
insert_close ==
    /\ ins.pc = "close"
    /\ ins' = [ins EXCEPT !.conn = "closed", !.pc = "done"]
    /\ UNCHANGED <<vmanifest, vflavor, vresult, dvars>>

InsertNext ==
    \/ insert_db
    \/ insert_read_file
    \/ insert_connect
    \/ insert_reflect
    \/ insert_lookup
    \/ insert_execute
    \/ insert_close

SpecInsertDb == Init /\ [][InsertNext]_vars

\* ================================================================ claims
Done(p) == pc[p] = "done"
Ops(p) == Range(sess[p].log)
Count(p, ops) == Cardinality({i \in DOMAIN sess[p].log : sess[p].log[i] \in ops})
\* the managed scope of p's call was entered and has been left
ScopeLeft(p) == Done(p) /\ sess[p].opened
RollbackCalled(p) == Ops(p) \cap {"rollback", "rollback failed"} # {}
CommitCalled(p) == Ops(p) \cap {"commit", "commit failed"} # {}
\* rows of p's current call a reader sees
VisibleRows(p) == {r \in UNION {dbRows[t] : t \in TableNames} : r.tx = call[p].id}
\* the exception raised by the unit of work itself (not by commit)
UowThrown(p) == IF "commit failed" \in Ops(p) THEN <<>> ELSE sess[p].thrown

\* C1: when the managed scope is left, whatever the unit of work did and
\* whether or not commit failed, exactly one of commit and rollback occurred
\* on the session: never both, never neither. A commit occurs when it
\* succeeds, a rollback when it is called, so a failed commit followed by a
\* rollback counts as a rollback only.
C1_ExactlyOneOfCommitRollback ==
    \A p \in Procs : ScopeLeft(p) =>
        LET c == Count(p, {"commit"})
            r == Count(p, {"rollback", "rollback failed"})
        IN  c + r = 1

\* C2: whenever the managed scope has been left, on any exit path, the
\* session it opened has been closed.
C2_SessionClosedOnExit ==
    \A p \in Procs : (pc[p] \in {"idle", "done"} /\ sess[p].opened) =>
        sess[p].closed /\ "close" \in Ops(p)

C2_Witness ==
    \E p \in Procs : ScopeLeft(p) /\ sess[p].closed /\ "commit failed" \in Ops(p)
                     /\ "rollback failed" \in Ops(p)

\* what steps 1-3 of deploy decide from the call's arguments: the manifest is
\* missing, an explicitly requested flavor is unsupported or not listed, or no
\* listed flavor is supported when none is requested
StepsOneToThreeFail(c) ==
    \/ ~c.manifest_exists
    \/ c.flavor # None /\ c.flavor \notin Range(SUPPORTED_DEPLOYMENT_FLAVORS)
    \/ c.flavor # None /\ c.flavor \notin Range(c.manifest)
    \/ c.flavor = None /\ Range(c.manifest) \cap Range(SUPPORTED_DEPLOYMENT_FLAVORS) = {}

\* C3: a deployment whose steps 1-3 fail never requests a store connection,
\* never opens a transaction, and ends in failure.
C3_NoStoreAccessOnEarlyFailure ==
    \A p \in Procs : (call[p].caller = "create" /\ StepsOneToThreeFail(call[p])) =>
        /\ ~conn[p]
        /\ ~sess[p].opened
        /\ Done(p) => exc[p] # <<>>

\* the store accepted every statement of p's call
StoreHealthy(p) ==
    /\ Ops(p) \cap {"flush failed", "commit failed", "rollback failed"} = {}
    /\ exc[p] # <<RawError("CREATE TABLE failed")>>

\* C4: a deployment to a table that an earlier deployment of the same process
\* created (so the table was new then) and committed its row to succeeds on a
\* healthy store, and the rows of the table have distinct model_id values.
C4_SecondDeploymentSucceeds ==
    \A p \in Procs :
        LET t == call[p].table_name IN
        (/\ Done(p) /\ call[p].caller = "create"
         /\ createdBy[t] \notin {0, call[p].id}
         /\ \E r \in dbRows[t] : r.tx = createdBy[t]
         /\ StoreHealthy(p)) =>
            /\ exc[p] = <<>>
            /\ \E r \in dbRows[t] : r.tx = call[p].id
            /\ \A r1, r2 \in dbRows[t] : r1 # r2 => r1.model_id # r2.model_id

\* C5: a reader sees a row of a call only once that call's commit has
\* succeeded; and when the unit of work raised, after adding or flushing or
\* at any other point, no row of the call is in the table once the scope is
\* left (nor before).
C5_NoRowWithoutCommit ==
    \A p \in Procs :
        /\ VisibleRows(p) # {} => "commit" \in Ops(p)
        /\ (sess[p].opened /\ UowThrown(p) # <<>>) =>
               VisibleRows(p) = {} /\ ~CommitCalled(p)
        /\ (ScopeLeft(p) /\ "commit" \notin Ops(p)) =>
               sess[p].new = {} /\ sess[p].flushed = {}

C5_Witness ==
    \E p \in Procs : /\ ScopeLeft(p) /\ "flush" \in Ops(p)
                     /\ UowThrown(p) # <<>> /\ VisibleRows(p) = {}

\* the error codes this module gives the failures it classifies (lines 20-22)
ErrorKinds == {"INTERNAL_ERROR", "INVALID_PARAMETER_VALUE", "RESOURCE_DOES_NOT_EXIST"}

\* C6: when the unit of work returned and the commit then fails, the store
\* rejecting it with an exception of its own (and the rollback that handles
\* the failure returns), the caller receives a
\* classified error of a kind of its own, CommitError, not the kind of any
\* other failure, and no row of the transaction is left in the table.
C6_CommitErrorKind ==
    \A p \in Procs :
        (/\ ScopeLeft(p) /\ "commit failed" \in Ops(p) /\ "rollback" \in Ops(p)
         /\ sess[p].thrown # <<>> /\ sess[p].thrown[1].cls = "Exception") =>
            /\ VisibleRows(p) = {}
            /\ exc[p] # <<>>
            /\ exc[p][1].cls = "MlflowException"
            /\ exc[p][1].error_code \notin ErrorKinds

\* C7: when the unit of work raised an MlflowException, rollback is called
\* (and commit is not), and the caller receives that very exception: same
\* class, error code and message, wrapping nothing new.
C7_ClassifiedErrorUnchanged ==
    \A p \in Procs :
        (ScopeLeft(p) /\ UowThrown(p) # <<>> /\ UowThrown(p)[1].cls = "MlflowException") =>
            /\ RollbackCalled(p) /\ ~CommitCalled(p)
            /\ "rollback" \in Ops(p) => exc[p] = UowThrown(p)

C7_Witness ==
    \E p \in Procs : /\ ScopeLeft(p) /\ "rollback" \in Ops(p)
                     /\ UowThrown(p) # <<>> /\ UowThrown(p)[1].cls = "MlflowException"
                     /\ UowThrown(p)[1].error_code = "INVALID_PARAMETER_VALUE"
                     /\ exc[p] = UowThrown(p)

\* C8: when the unit of work raised an Exception that is no MlflowException,
\* rollback is called (and commit is not), and the caller receives an
\* MlflowException with error code INTERNAL_ERROR that holds the original
\* exception.
C8_UnclassifiedErrorWrapped ==
    \A p \in Procs :
        (ScopeLeft(p) /\ UowThrown(p) # <<>> /\ UowThrown(p)[1].cls = "Exception") =>
            /\ RollbackCalled(p) /\ ~CommitCalled(p)
            /\ "rollback" \in Ops(p) =>
                  /\ exc[p] # <<>>
                  /\ exc[p][1].cls = "MlflowException"
                  /\ exc[p][1].error_code = "INTERNAL_ERROR"
                  /\ exc[p][1].wraps = UowThrown(p)
                  /\ exc[p][1] # UowThrown(p)[1]

C8_Witness ==
    \E p \in Procs : /\ ScopeLeft(p) /\ "rollback" \in Ops(p)
                     /\ UowThrown(p) = <<RawError("unit of work failed")>>
                     /\ exc[p] # <<>> /\ exc[p][1].wraps = UowThrown(p)

\* C9: for every requested flavor outside the supported set, whatever the
\* manifest lists, validation raises INVALID_PARAMETER_VALUE (the unsupported
\* flavor error), and so does a deployment requesting that flavor, also when
\* the manifest lists it (on a store that accepts every statement, the table
\* class being declared for the first time in the process).
C9_UnsupportedFlavorFailsDeploy ==
    /\ \A m \in ManifestFlavors, f \in FlavorNames \ Range(SUPPORTED_DEPLOYMENT_FLAVORS) :
          LET v == _validate_deployment_flavor(m, f) IN
          v # <<>> /\ v[1].error_code = "INVALID_PARAMETER_VALUE"
    /\ \A p \in Procs :
          (/\ Done(p) /\ call[p].caller = "create" /\ StoreHealthy(p)
           /\ exc[p] # <<RawError("InvalidRequestError: table already defined")>>
           /\ call[p].manifest_exists /\ call[p].flavor \in Range(call[p].manifest)
           /\ call[p].flavor \in FlavorNames \ Range(SUPPORTED_DEPLOYMENT_FLAVORS)) =>
              exc[p] # <<>> /\ exc[p][1].error_code = "INVALID_PARAMETER_VALUE"

\* C10: validation of a supported flavor the manifest does not list raises
\* RESOURCE_DOES_NOT_EXIST (the flavor-not-present error) naming the flavors
\* the manifest lists; validation returns exactly when the flavor is both
\* supported and listed.
C10_FlavorNotPresent ==
    vresult.ran =>
        LET supported == \E i \in DOMAIN SUPPORTED_DEPLOYMENT_FLAVORS :
                            SUPPORTED_DEPLOYMENT_FLAVORS[i] = vflavor
            listed == \E i \in DOMAIN vmanifest : vmanifest[i] = vflavor
        IN  /\ (supported /\ ~listed) =>
                  /\ vresult.raised # <<>>
                  /\ vresult.raised[1].cls = "MlflowException"
                  /\ vresult.raised[1].error_code = "RESOURCE_DOES_NOT_EXIST"
                  /\ vresult.raised[1].detail = vmanifest
            /\ (vresult.raised = <<>>) <=> (supported /\ listed)

C10_Witness ==
    /\ vresult.ran
    /\ vflavor = "onnx"
    /\ vmanifest = <<"tensorflow", "python_function">>
    /\ vresult.raised # <<>>
    /\ vresult.raised[1].error_code = "RESOURCE_DOES_NOT_EXIST"

\* positions of the manifest's flavors that are in the supported set
SupportedListed == {i \in DOMAIN vmanifest : vmanifest[i] \in Range(SUPPORTED_DEPLOYMENT_FLAVORS)}

\* C11 as stated: given no flavor, validation returns the first flavor of the
\* manifest, in its listed order, that is supported, and raises the
\* unsupported-flavor error only when the manifest lists no supported flavor.
C11_AutoDetectFirstSupported ==
    (vresult.ran /\ vflavor = None) =>
        IF SupportedListed # {}
        THEN /\ vresult.raised = <<>>
             /\ vresult.returned =
                   vmanifest[CHOOSE i \in SupportedListed : \A j \in SupportedListed : i <= j]
        ELSE /\ vresult.raised # <<>>
             /\ vresult.raised[1].error_code = "INVALID_PARAMETER_VALUE"

\* C11 amended: given no flavor (None), validation raises the
\* unsupported-flavor error (INVALID_PARAMETER_VALUE, naming the supported
\* set) whatever the manifest lists; and no call of the validator returns a
\* flavor, a call that does not raise returns None.
C11_NoFlavorIsUnsupported ==
    vresult.ran =>
        /\ vflavor = None =>
              /\ vresult.raised # <<>>
              /\ vresult.raised[1].cls = "MlflowException"
              /\ vresult.raised[1].error_code = "INVALID_PARAMETER_VALUE"
              /\ vresult.raised[1].detail = SUPPORTED_DEPLOYMENT_FLAVORS
        /\ vresult.returned = None

C11_Witness ==
    /\ vresult.ran /\ vflavor = None
    /\ vmanifest = <<"tensorflow", "onnx">>
    /\ vresult.raised # <<>>
    /\ vresult.raised[1].error_code = "INVALID_PARAMETER_VALUE"

\* C12: every call of the table-class factory for a name returns the schema
\* registered for that name, the first call registering it: once line 66 of a
\* deployment has run, the name is registered and the call did not raise.
C12_SchemaMemoizedByName ==
    \A p \in Procs :
        (call[p].caller = "create" /\ pc[p] # "make_model") =>
            /\ call[p].table_name \in metadata[p]
            /\ exc[p] # <<RawError("InvalidRequestError: table already defined")>>

\* C13: the create step of a deployment that finds the physical table
\* present issues no CREATE TABLE, raises nothing and leaves the tables, their
\* rows and their identity counters as they were; the deployment goes on to
\* open its session.
C13_CreateIsNoOpOnExistingTable ==
    [][\A p \in Procs :
          (/\ pc[p] = "create_table_check" /\ pc'[p] # "create_table_check"
           /\ call[p].table_name \in dbTables) =>
              /\ pc'[p] = "open"
              /\ exc'[p] = <<>>
              /\ dbTables' = dbTables
              /\ dbRows' = dbRows
              /\ dbNextId' = dbNextId
              /\ createdBy' = createdBy]_vars

\* a deployment passed the create step on a table it did not create, which
\* already held a row
C13_Witness ==
    \E p \in Procs :
        /\ call[p].caller = "create" /\ pc[p] = "open"
        /\ call[p].table_name \in dbTables
        /\ createdBy[call[p].table_name] = 0
        /\ dbRows[call[p].table_name] # {}
        /\ exc[p] = <<>>

\* C14: no deployment ends with the store's "table already exists" error of
\* its CREATE TABLE: when two deployments interleave between the existence
\* check and the creation, the loser of the race goes on to insert its row.
C14_AlreadyExistsTolerated ==
    \A p \in Procs :
        (Done(p) /\ call[p].caller = "create") =>
            exc[p] # <<RawError("CREATE TABLE failed: table already exists")>>

\* C15: every row committed by a deployment (one whose manifest and flavor
\* pass steps 1-3) has model_deployment_time set (not null).
C15_DeploymentTimeSet ==
    \A p \in Procs :
        (call[p].caller = "create" /\ ~StepsOneToThreeFail(call[p])) =>
            \A r \in VisibleRows(p) : r.model_deployment_time # None

\* C16: after a successful deployment (one whose manifest and flavor pass
\* steps 1-3) the model column of its row holds the bytes of the artifact's
\* data file.
C16_ModelBytesRoundTrip ==
    \A p \in Procs :
        (/\ Done(p) /\ call[p].caller = "create" /\ exc[p] = <<>>
         /\ ~StepsOneToThreeFail(call[p])) =>
            /\ VisibleRows(p) # {}
            /\ \A r \in VisibleRows(p) : r.model # None /\ r.model = call[p].artifact

\* C17: a deployment whose explicitly requested flavor the validator rejects
\* as unsupported never adds a row to the target table and never creates it.
C17_UnsupportedFlavorLeavesTable ==
    \A p \in Procs :
        LET v == _validate_deployment_flavor(call[p].manifest, call[p].flavor) IN
        (/\ call[p].caller = "create" /\ call[p].manifest_exists /\ call[p].flavor # None
         /\ v # <<>> /\ v[1].error_code = "INVALID_PARAMETER_VALUE") =>
            /\ VisibleRows(p) = {}
            /\ createdBy[call[p].table_name] # call[p].id

\* C18: a deployment that fails hands its caller a classified error, an
\* MlflowException carrying an error code.
C18_FailuresAreClassified ==
    \A p \in Procs :
        (Done(p) /\ call[p].caller = "create" /\ exc[p] # <<>>) =>
            /\ exc[p][1].cls = "MlflowException"
            /\ exc[p][1].error_code # None

\* C19: after insert_db returns or raises, the connection it obtained with
\* engine.connect() is not left open.
C19_ConnectionClosedOnExit ==
    ins.pc = "done" => ins.conn # "open"

\* C20: when rollback itself raises while a failure of the unit of work or of
\* commit is being handled, the session is still closed exactly once, close is
\* the last operation on the session, and the caller receives the rollback's
\* failure in place of the original error.
C20_RollbackFailurePropagates ==
    \A p \in Procs :
        (ScopeLeft(p) /\ "rollback failed" \in Ops(p)) =>
            /\ Count(p, {"close"}) = 1
            /\ sess[p].log[Len(sess[p].log)] = "close"
            /\ sess[p].closed
            /\ exc[p] = <<RawError("rollback failed")>>

\* a commit failed, the rollback that handled it failed too, and the scope
\* has been left
C20_Witness ==
    \E p \in Procs :
        /\ ScopeLeft(p)
        /\ "commit failed" \in Ops(p)
        /\ "rollback failed" \in Ops(p)
        /\ sess[p].thrown # <<>>
        /\ exc[p] # sess[p].thrown
====
